---- MODULE Spec2Model ----
(***************************************************************************)
(* A model of the buffered MD5 hasher: the Hasher facade (lib/Hasher.js),  *)
(* the MD5 transform (lib/MD5Hasher.js) and the buffered block algorithm   *)
(* (BufferedBlockAlgorithm).                                               *)
(*                                                                         *)
(* A JavaScript 32-bit word is kept as a pair <<hi, lo>> of 16-bit halves, *)
(* hi * 2^16 + lo being the word read as an unsigned 32-bit number, so     *)
(* that all arithmetic is exact arithmetic modulo 2^32.  A hole of a       *)
(* JavaScript array (undefined) is kept as the zero word: every read of    *)
(* the code goes through a bitwise operator, which takes undefined to 0.   *)
(***************************************************************************)
EXTENDS Integers, Sequences, FiniteSets, TLC

----------------------------------------------------------------------------
(* 32-bit word arithmetic, as the JavaScript operators compute it.         *)

Half == 65536

Zero == <<0, 0>>

IsWord(w) == /\ w \in Seq(Nat) /\ Len(w) = 2
             /\ w[1] \in 0..(Half - 1) /\ w[2] \in 0..(Half - 1)

(* 2^n for n = 0..16 *)
Pow2(n) == <<1, 2, 4, 8, 16, 32, 64, 128, 256, 512, 1024, 2048, 4096, 8192,
             16384, 32768, 65536>>[n + 1]

(* The bitwise and of two n-bit numbers, bit by bit. *)
RECURSIVE AndBits(_, _, _)
AndBits(x, y, n) ==
    IF n = 0 THEN 0
    ELSE ((x % 2) * (y % 2)) + (2 * AndBits(x \div 2, y \div 2, n - 1))

(* The bitwise and of two bytes, tabulated: AndByte[p + 1][q + 1] = p & q. *)
AndByte ==
    <<>> \o [p \in 1..256 |-> <<>> \o [q \in 1..256 |-> AndBits(p - 1, q - 1, 8)]]

(* The bitwise operators on 16-bit halves;  x | y = x + y - (x & y)  and   *)
(* x ^ y = x + y - 2 (x & y).                                              *)
And16(x, y) ==
    AndByte[(x % 256) + 1][(y % 256) + 1]
    + (256 * AndByte[(x \div 256) + 1][(y \div 256) + 1])
Or16(x, y)  == x + y - And16(x, y)
Xor16(x, y) == x + y - (2 * And16(x, y))
Not16(x)    == Half - 1 - x

(* x & y, x | y, x ^ y, ~x *)
And(x, y) == <<And16(x[1], y[1]), And16(x[2], y[2])>>
Or(x, y)  == <<Or16(x[1], y[1]), Or16(x[2], y[2])>>
Xor(x, y) == <<Xor16(x[1], y[1]), Xor16(x[2], y[2])>>
Not(x)    == <<Not16(x[1]), Not16(x[2])>>

(* x << n and x >>> n, for 0 <= n <= 31 *)
Shl(x, n) ==
    IF n < 16
    THEN <<((x[1] * Pow2(n)) % Half) + (x[2] \div Pow2(16 - n)), (x[2] * Pow2(n)) % Half>>
    ELSE <<(x[2] * Pow2(n - 16)) % Half, 0>>

Shr(x, n) ==
    IF n < 16
    THEN <<x[1] \div Pow2(n), ((x[1] % Pow2(n)) * Pow2(16 - n)) + (x[2] \div Pow2(n))>>
    ELSE <<0, x[1] \div Pow2(n - 16)>>

(* (x + y) modulo 2^32 *)
Add(x, y) ==
    LET lo == x[2] + y[2]
    IN  <<(x[1] + y[1] + (lo \div Half)) % Half, lo % Half>>

(* A small non-negative number as a word. *)
ToWord(n) == <<n \div Half, n % Half>>

(* Swap endian: (((w << 8) | (w >>> 24)) & 0x00ff00ff) |                   *)
(*              (((w << 24) | (w >>> 8)) & 0xff00ff00)                     *)
(* The first term is w rotated left by 8 with its bytes 1 and 3 kept, the  *)
(* second w rotated right by 8 with its bytes 0 and 2 kept.                *)
RotL(w, s) == Or(Shl(w, s), Shr(w, 32 - s))
SwapEndianBits(w) ==
    Or(And(RotL(w, 8), <<\h00ff, \h00ff>>), And(RotL(w, 24), <<\hff00, \hff00>>))

(* A swap that exchanges the halves of the word and leaves the bytes of    *)
(* each half in place: b2 b3 b0 b1.                                        *)
SwapEndianHalves(w) == <<w[2], w[1]>>

(* The same value, by bytes: for the word of bytes b0 b1 b2 b3 the word of *)
(* bytes b3 b2 b1 b0.                                                      *)
SwapEndian(w) ==
    <<((w[2] % 256) * 256) + (w[2] \div 256), ((w[1] % 256) * 256) + (w[1] \div 256)>>

----------------------------------------------------------------------------
(* The constants table: T[i] = (abs(sin(i + 1)) * 2^32) | 0, i = 0..63,    *)
(* kept 1-based (TT[i + 1] is the code's T[i]).                            *)
TT == <<
    <<\hd76a, \ha478>>, <<\he8c7, \hb756>>, <<\h2420, \h70db>>, <<\hc1bd, \hceee>>,
    <<\hf57c, \h0faf>>, <<\h4787, \hc62a>>, <<\ha830, \h4613>>, <<\hfd46, \h9501>>,
    <<\h6980, \h98d8>>, <<\h8b44, \hf7af>>, <<\hffff, \h5bb1>>, <<\h895c, \hd7be>>,
    <<\h6b90, \h1122>>, <<\hfd98, \h7193>>, <<\ha679, \h438e>>, <<\h49b4, \h0821>>,
    <<\hf61e, \h2562>>, <<\hc040, \hb340>>, <<\h265e, \h5a51>>, <<\he9b6, \hc7aa>>,
    <<\hd62f, \h105d>>, <<\h0244, \h1453>>, <<\hd8a1, \he681>>, <<\he7d3, \hfbc8>>,
    <<\h21e1, \hcde6>>, <<\hc337, \h07d6>>, <<\hf4d5, \h0d87>>, <<\h455a, \h14ed>>,
    <<\ha9e3, \he905>>, <<\hfcef, \ha3f8>>, <<\h676f, \h02d9>>, <<\h8d2a, \h4c8a>>,
    <<\hfffa, \h3942>>, <<\h8771, \hf681>>, <<\h6d9d, \h6122>>, <<\hfde5, \h380c>>,
    <<\ha4be, \hea44>>, <<\h4bde, \hcfa9>>, <<\hf6bb, \h4b60>>, <<\hbebf, \hbc70>>,
    <<\h289b, \h7ec6>>, <<\heaa1, \h27fa>>, <<\hd4ef, \h3085>>, <<\h0488, \h1d05>>,
    <<\hd9d4, \hd039>>, <<\he6db, \h99e5>>, <<\h1fa2, \h7cf8>>, <<\hc4ac, \h5665>>,
    <<\hf429, \h2244>>, <<\h432a, \hff97>>, <<\hab94, \h23a7>>, <<\hfc93, \ha039>>,
    <<\h655b, \h59c3>>, <<\h8f0c, \hcc92>>, <<\hffef, \hf47d>>, <<\h8584, \h5dd1>>,
    <<\h6fa8, \h7e4f>>, <<\hfe2c, \he6e0>>, <<\ha301, \h4314>>, <<\h4e08, \h11a1>>,
    <<\hf753, \h7e82>>, <<\hbd3a, \hf235>>, <<\h2ad7, \hd2bb>>, <<\heb86, \hd391>>
>>

----------------------------------------------------------------------------
(* MD5Utils: the four round functions,                                     *)
(*   a' = b + rotate_left(a + mix(b, c, d) + x + t, s)                     *)
(* with mix one of                                                         *)
(*   F(x, y, z) = (x AND y) OR (NOT x AND z)                               *)
(*   G(x, y, z) = (x AND z) OR (y AND NOT z)                               *)
(*   H(x, y, z) = x XOR y XOR z                                            *)
(*   I(x, y, z) = y XOR (x OR NOT z)                                       *)

MixF(x, y, z) ==
    <<Or16(And16(x[1], y[1]), And16(Not16(x[1]), z[1])),
      Or16(And16(x[2], y[2]), And16(Not16(x[2]), z[2]))>>
MixG(x, y, z) ==
    <<Or16(And16(x[1], z[1]), And16(y[1], Not16(z[1]))),
      Or16(And16(x[2], z[2]), And16(y[2], Not16(z[2])))>>
MixH(x, y, z) ==
    <<Xor16(Xor16(x[1], y[1]), z[1]), Xor16(Xor16(x[2], y[2]), z[2])>>
MixI(x, y, z) ==
    <<Xor16(y[1], Or16(x[1], Not16(z[1]))),
      Xor16(y[2], Or16(x[2], Not16(z[2])))>>

(* b + rotate_left(a + f + x + t, s) *)
RotAdd(a, f, x, t, s, b) ==
    LET lo == a[2] + f[2] + x[2] + t[2]
        n  == <<(a[1] + f[1] + x[1] + t[1] + (lo \div Half)) % Half, lo % Half>>
    IN  Add(RotL(n, s), b)

FF(a, b, c, d, x, s, t) == RotAdd(a, MixF(b, c, d), x, t, s, b)
GG(a, b, c, d, x, s, t) == RotAdd(a, MixG(b, c, d), x, t, s, b)
HH(a, b, c, d, x, s, t) == RotAdd(a, MixH(b, c, d), x, t, s, b)
II(a, b, c, d, x, s, t) == RotAdd(a, MixI(b, c, d), x, t, s, b)

Mix(fn, a, b, c, d, x, s, t) ==
    CASE fn = "FF" -> FF(a, b, c, d, x, s, t)
      [] fn = "GG" -> GG(a, b, c, d, x, s, t)
      [] fn = "HH" -> HH(a, b, c, d, x, s, t)
      [] fn = "II" -> II(a, b, c, d, x, s, t)

----------------------------------------------------------------------------
(* MD5 (lib/MD5Hasher.js)                                                  *)

(* The 64 computation lines of doProcessBlock, in order: line i (0-based)  *)
(* is  v = fn(v, .., M_offset_k, s, T[i])  and Computation[i + 1] is       *)
(* <<fn, k, s>>.  The assigned variable cycles a, d, c, b.                 *)
Computation == <<
    <<"FF", 0, 7>>, <<"FF", 1, 12>>, <<"FF", 2, 17>>, <<"FF", 3, 22>>,
    <<"FF", 4, 7>>, <<"FF", 5, 12>>, <<"FF", 6, 17>>, <<"FF", 7, 22>>,
    <<"FF", 8, 7>>, <<"FF", 9, 12>>, <<"FF", 10, 17>>, <<"FF", 11, 22>>,
    <<"FF", 12, 7>>, <<"FF", 13, 12>>, <<"FF", 14, 17>>, <<"FF", 15, 22>>,
    <<"GG", 1, 5>>, <<"GG", 6, 9>>, <<"GG", 11, 14>>, <<"GG", 0, 20>>,
    <<"GG", 5, 5>>, <<"GG", 10, 9>>, <<"GG", 15, 14>>, <<"GG", 4, 20>>,
    <<"GG", 9, 5>>, <<"GG", 14, 9>>, <<"GG", 3, 14>>, <<"GG", 8, 20>>,
    <<"GG", 13, 5>>, <<"GG", 2, 9>>, <<"GG", 7, 14>>, <<"GG", 12, 20>>,
    <<"HH", 5, 4>>, <<"HH", 8, 11>>, <<"HH", 11, 16>>, <<"HH", 14, 23>>,
    <<"HH", 1, 4>>, <<"HH", 4, 11>>, <<"HH", 7, 16>>, <<"HH", 10, 23>>,
    <<"HH", 13, 4>>, <<"HH", 0, 11>>, <<"HH", 3, 16>>, <<"HH", 6, 23>>,
    <<"HH", 9, 4>>, <<"HH", 12, 11>>, <<"HH", 15, 16>>, <<"HH", 2, 23>>,
    <<"II", 0, 6>>, <<"II", 7, 10>>, <<"II", 14, 15>>, <<"II", 5, 21>>,
    <<"II", 12, 6>>, <<"II", 3, 10>>, <<"II", 10, 15>>, <<"II", 1, 21>>,
    <<"II", 8, 6>>, <<"II", 15, 10>>, <<"II", 6, 15>>, <<"II", 13, 21>>,
    <<"II", 4, 6>>, <<"II", 11, 10>>, <<"II", 2, 15>>, <<"II", 9, 21>>
>>

(* A sequence of words read at a 0-based index; a hole or an index past    *)
(* the end reads as undefined, which the bitwise operators take to 0.      *)
At(M, i) == IF i + 1 <= Len(M) THEN M[i + 1] ELSE Zero

(* M with the 0-based index i set to w; writing past the end extends the   *)
(* array, the indices between becoming holes.                              *)
Put(M, i, w) ==
    IF i < Len(M) THEN [M EXCEPT ![i + 1] = w]
    ELSE M \o [j \in 1..(i - Len(M)) |-> Zero] \o <<w>>

(* An initial hash of five words, as SHA-1 has it. *)
doResetFive ==
    << <<\h6745, \h2301>>, <<\hefcd, \hab89>>, <<\h98ba, \hdcfe>>, <<\h1032, \h5476>>,
       <<\hc3d2, \he1f0>> >>

(* doReset: the initial hash value. *)
doReset == << <<\h6745, \h2301>>, <<\hefcd, \hab89>>,
              <<\h98ba, \hdcfe>>, <<\h1032, \h5476>> >>

(* A swap that does not stop at the end of the block: every word from     *)
(* offset on is swapped.                                                   *)
SwapBlockOn(M, offset) ==
    SubSeq(M, 1, offset)
    \o [i \in 1..(Len(M) - offset) |-> SwapEndian(At(M, offset + i - 1))]

(* doProcessBlock, swap endian loop: M[offset + i] swapped for i = 0..15   *)
(* (an index past the end is read as 0 and written, extending the array).  *)
SwapBlock(M, offset) ==
    SubSeq(M, 1, offset)
    \o [i \in 1..16 |-> SwapEndian(At(M, offset + i - 1))]
    \o SubSeq(M, offset + 17, Len(M))

(* doProcessBlock, one computation line on the working variables          *)
(* v = <<a, b, c, d>>:  line i assigns a, d, c, b in turn.                 *)
Line(i, v, M, offset) ==
    LET e == Computation[i + 1]
        x == At(M, offset + e[2])
        t == TT[i + 1]
        a == v[1]
        b == v[2]
        c == v[3]
        d == v[4]
    IN  CASE i % 4 = 0 -> <<Mix(e[1], a, b, c, d, x, e[3], t), b, c, d>>
          [] i % 4 = 1 -> <<a, b, c, Mix(e[1], d, a, b, c, x, e[3], t)>>
          [] i % 4 = 2 -> <<a, b, Mix(e[1], c, d, a, b, x, e[3], t), d>>
          [] i % 4 = 3 -> <<a, Mix(e[1], b, c, d, a, x, e[3], t), c, d>>

(* The computation lines i..63 in order.  (The test on v has TLC evaluate  *)
(* each line's result before it goes on to the next line.)                 *)
RECURSIVE Rounds(_, _, _, _)
Rounds(i, v, M, offset) ==
    IF i >= 64 \/ Len(v) # 4 THEN v
    ELSE Rounds(i + 1, Line(i, v, M, offset), M, offset)

(* doProcessBlock(M, offset) on hash words H: the array M and the hash     *)
(* after the call, both changed in place by the code.                      *)
doProcessBlock(M, offset, H) ==
    LET Sum(M1, r) ==
            [M |-> M1,
             H |-> <<Add(H[1], r[1]), Add(H[2], r[2]), Add(H[3], r[3]), Add(H[4], r[4])>>
                   \o SubSeq(H, 5, Len(H))]
        Run(M1) == Sum(M1, Rounds(0, <<H[1], H[2], H[3], H[4]>>, M1, offset))
    IN  Run(SwapBlock(M, offset))

----------------------------------------------------------------------------
(* WordArray: a sequence of words with its count of significant bytes.     *)
(* Byte i lives in word i >> 2, shifted by 24 - 8 * (i mod 4).             *)

WordArray(words, sigBytes) == [words |-> words, sigBytes |-> sigBytes]

(* new WordArray(): no words, no bytes. *)
EmptyWordArray == WordArray(<<>>, 0)

(* Byte i (0-based) of a word sequence. *)
ByteAt(M, i) ==
    LET w == At(M, i \div 4)
    IN  CASE i % 4 = 0 -> w[1] \div 256
          [] i % 4 = 1 -> w[1] % 256
          [] i % 4 = 2 -> w[2] \div 256
          [] i % 4 = 3 -> w[2] % 256

(* The first n bytes of a word sequence. *)
Bytes(M, n) == [i \in 1..n |-> ByteAt(M, i - 1)]

(* Bytes packed big-endian into words, the last word filled with zeros.    *)
Pack(bytes) ==
    LET B(i) == IF i <= Len(bytes) THEN bytes[i] ELSE 0
    IN  [j \in 1..((Len(bytes) + 3) \div 4) |->
            <<(B(4 * j - 3) * 256) + B(4 * j - 2), (B(4 * j - 1) * 256) + B(4 * j)>>]

(* concat: the significant bytes of a followed by those of b. *)
Concat(a, b) ==
    WordArray(<<>> \o Pack(Bytes(a.words, a.sigBytes) \o Bytes(b.words, b.sigBytes)),
              a.sigBytes + b.sigBytes)

----------------------------------------------------------------------------
(* The text encoder: unescape(encodeURIComponent(str)), the UTF-8 bytes of *)
(* a string of code points below 2^16 as a string of char codes 0..255.    *)

Utf8Char(c) ==
    IF c < 128 THEN <<c>>
    ELSE IF c < 2048 THEN <<192 + (c \div 64), 128 + (c % 64)>>
    ELSE <<224 + (c \div 4096), 128 + ((c \div 64) % 64), 128 + (c % 64)>>

(* The encodings of the code points, one after the other (the string is   *)
(* encoded by halves).                                                     *)
RECURSIVE Utf8(_)
Utf8(str) ==
    IF Len(str) = 0 THEN <<>>
    ELSE IF Len(str) = 1 THEN Utf8Char(str[1])
    ELSE Utf8(SubSeq(str, 1, Len(str) \div 2))
         \o Utf8(SubSeq(str, (Len(str) \div 2) + 1, Len(str)))

----------------------------------------------------------------------------
(* BufferedBlockAlgorithm                                                  *)

(* constructor(blockSize = 512 / 32) *)
blockSize == 16

(* reset(): this._data = new WordArray(); this._nDataBytes = 0 *)
Buffer_reset == [data |-> EmptyWordArray, nDataBytes |-> 0]

(* _parse, what its loop                                                   *)
(*   words[i >>> 2] |= (latin1Str.charCodeAt(i) & 0xff) << (24 - (i % 4) * 8) *)
(* ors into word j: the terms of i = 4j .. 4j + 3 below the length, onto   *)
(* the undefined (0) the array holds at first.                             *)
parseTerm(latin1Str, i) ==
    IF i < Len(latin1Str)
    THEN Shl(And(ToWord(latin1Str[i + 1]), <<0, \h00ff>>), 24 - ((i % 4) * 8))
    ELSE Zero

parseWord(latin1Str, j) ==
    Or(Or(Or(Or(Zero, parseTerm(latin1Str, 4 * j)), parseTerm(latin1Str, (4 * j) + 1)),
          parseTerm(latin1Str, (4 * j) + 2)),
       parseTerm(latin1Str, (4 * j) + 3))

parse(latin1Str) ==
    WordArray(<<>> \o [j \in 1..((Len(latin1Str) + 3) \div 4) |->
                          parseWord(latin1Str, j - 1)],
              Len(latin1Str))

(* An append that counts the words appended, four bytes each. *)
Buffer_appendWords(b, str) ==
    LET Appended(data) ==
            [data |-> Concat(b.data, data),
             nDataBytes |-> b.nDataBytes + (4 * Len(data.words))]
    IN  Appended(parse(Utf8(str)))

(* append(data) for a string: parse its UTF-8 bytes, concat, count.        *)
Buffer_append(b, str) ==
    LET Appended(data) ==
            [data |-> Concat(b.data, data), nDataBytes |-> b.nDataBytes + data.sigBytes]
    IN  Appended(parse(Utf8(str)))

(* process, the loop: doProcessBlock at offset, offset + blockSize, ...    *)
(* below nWordsReady.  n counts the calls of doProcessBlock and fed keeps  *)
(* the blocks handed to it, as they were at the call.  (The test on H has  *)
(* TLC evaluate each block's result before it goes on to the next block;   *)
(* the hash has its four words in every state.)                            *)
RECURSIVE ProcessBlocks(_, _, _, _, _, _)
ProcessBlocksSame(M, H, offset, nWordsReady, n, fed) ==
    IF offset >= nWordsReady \/ Len(H) < 4 THEN [M |-> M, H |-> H, n |-> n, fed |-> fed]
    ELSE LET Go(r) ==
                 ProcessBlocks(r.M, r.H, offset + blockSize, nWordsReady, n + 1,
                               fed \o [i \in 1..blockSize |-> At(M, i - 1)])
         IN  Go(doProcessBlock(M, 0, H))

ProcessBlocks(M, H, offset, nWordsReady, n, fed) ==
    IF offset >= nWordsReady \/ Len(H) < 4 THEN [M |-> M, H |-> H, n |-> n, fed |-> fed]
    ELSE LET Go(r) ==
                 ProcessBlocks(r.M, r.H, offset + blockSize, nWordsReady, n + 1,
                               fed \o [i \in 1..blockSize |-> At(M, offset + i - 1)])
         IN  Go(doProcessBlock(M, offset, H))

(* Math.ceil(a / b) and (a / b) | 0 for a >= 0, b > 0 *)
Ceil(a, b) == (a + b - 1) \div b
Trunc(a, b) == a \div b

Max(a, b) == IF a >= b THEN a ELSE b
Min(a, b) == IF a <= b THEN a ELSE b

(* A block count that is never less than one. *)
nBlocksReadyOne(dataSigBytes, doFlush, minBufferSize) ==
    IF doFlush THEN Max(Ceil(dataSigBytes, blockSize * 4), 1)
    ELSE Max(Trunc(dataSigBytes, blockSize * 4) - minBufferSize, 1)

(* A block count that rounds up whatever the flag. *)
nBlocksReadyCeil(dataSigBytes, doFlush, minBufferSize) ==
    Ceil(dataSigBytes, blockSize * 4)

(* The number of blocks process takes: all of them, the last partial one   *)
(* included, when flushing; the whole blocks but minBufferSize otherwise.  *)
nBlocksReady(dataSigBytes, doFlush, minBufferSize) ==
    IF doFlush THEN Ceil(dataSigBytes, blockSize * 4)
    ELSE Max(Trunc(dataSigBytes, blockSize * 4) - minBufferSize, 0)

(* A byte count that is not clamped to the bytes present. *)
nBytesReadyWords(nWordsReady, dataSigBytes) == nWordsReady * 4

(* Math.min(nWordsReady * 4, dataSigBytes) *)
nBytesReady(nWordsReady, dataSigBytes) == Min(nWordsReady * 4, dataSigBytes)

(* process(doFlush, hasher) on buffer b with hasher._hash.words = H:       *)
(* the buffer and the hash after the call, the returned WordArray and the  *)
(* number of blocks handed to doProcessBlock.                              *)
Buffer_process(b, H, doFlush, minBufferSize) ==
    LET dataWords     == b.data.words
        dataSigBytes  == b.data.sigBytes
        nWordsReady   == nBlocksReady(dataSigBytes, doFlush, minBufferSize) * blockSize
        nBytesNow     == nBytesReady(nWordsReady, dataSigBytes)
        Spliced(r)    ==
             [b |-> [data |-> WordArray(SubSeq(r.M, nWordsReady + 1, Len(r.M)),
                                        dataSigBytes - nBytesNow),
                     nDataBytes |-> b.nDataBytes],
              H |-> r.H,
              ret |-> WordArray(SubSeq(r.M, 1, nWordsReady), nBytesNow),
              n |-> r.n, fed |-> r.fed]
    IN  IF nWordsReady # 0
        THEN Spliced(ProcessBlocks(dataWords, H, 0, nWordsReady, 0, <<>>))
        ELSE [b |-> b, H |-> H, ret |-> WordArray(<<>>, nBytesNow), n |-> 0,
              fed |-> <<>>]

----------------------------------------------------------------------------
(* MD5.doFinalize                                                          *)

(* A length placed in the block of the last buffered byte, with no room    *)
(* kept for its 64 bits.                                                   *)
lengthBlockNoRoom(nBitsLeft) == (nBitsLeft \div 512) * 16

(* ((nBitsLeft + 64) >>> 9) << 4: the first word of the block that takes   *)
(* the length.                                                             *)
lengthBlock(nBitsLeft) == ((nBitsLeft + 64) \div 512) * 16

(* The words of nBitsTotal = _nDataBytes * 8:                              *)
(*   nBitsTotalH = Math.floor(nBitsTotal / 0x100000000)                    *)
(*   nBitsTotalL = nBitsTotal, which the shifts read modulo 2^32.          *)
(* nBitsTotal may pass 2^31, so both are computed from the byte count:     *)
(* nBitsTotal div 2^32 = nDataBytes div 2^29, and the halves of            *)
(* nBitsTotal mod 2^32 are (nDataBytes mod 2^29) div 2^13 and              *)
(* (nDataBytes mod 2^13) * 8.                                              *)
nBitsTotalH(nDataBytesNow) == ToWord(nDataBytesNow \div 536870912)
nBitsTotalL(nDataBytesNow) ==
    <<(nDataBytesNow % 536870912) \div 8192, (nDataBytesNow % 8192) * 8>>

(* An index of the high word one slot lower, the slot of the low word. *)
highSlotLower(nBitsLeft) == lengthBlock(nBitsLeft) + 14

(* The slots of the high and the low word of the length:                   *)
(* (((nBitsLeft + 64) >>> 9) << 4) + 15 and ... + 14.                      *)
highSlot(nBitsLeft) == lengthBlock(nBitsLeft) + 15
lowSlot(nBitsLeft)  == lengthBlock(nBitsLeft) + 14

(* doFinalize up to the call of process: the padded buffer. *)
doFinalizePad(b) ==
    LET dataWords   == b.data.words
        nBitsLeft   == b.data.sigBytes * 8
        padded      == Put(dataWords, nBitsLeft \div 32,
                           Or(At(dataWords, nBitsLeft \div 32),
                              Shl(<<0, \h0080>>, 24 - (nBitsLeft % 32))))
        withH       == Put(padded, highSlot(nBitsLeft),
                           SwapEndian(nBitsTotalH(b.nDataBytes)))
        withL       == Put(withH, lowSlot(nBitsLeft),
                           SwapEndian(nBitsTotalL(b.nDataBytes)))
    IN  [data |-> WordArray(withL, (Len(withL) + 1) * 4), nDataBytes |-> b.nDataBytes]

(* doFinalize: pad, this.buffer.process(false, this), swap endian of the   *)
(* four hash words, return the hash.  The result also keeps what the call  *)
(* found buffered (buf) and the padded words it handed to process (tail).  *)
doFinalize(b, H, minBufferSize) ==
    LET Swapped(h) == <<>> \o [i \in 1..Len(h) |->
                                   IF i <= 4 THEN SwapEndian(h[i]) ELSE h[i]]
        Done(pad, p) ==
            [b |-> p.b, H |-> Swapped(p.H), n |-> p.n, fed |-> p.fed, flush |-> FALSE,
             buf |-> <<>> \o Bytes(b.data.words, b.data.sigBytes),
             tail |-> pad.data.words]
        Padded(pad) == Done(pad, Buffer_process(pad, H, FALSE, minBufferSize))
    IN  Padded(doFinalizePad(b))

-----
(* Hasher                                                                  *)

(* A reset that resets the buffer and leaves the hash as it is. *)
Hasher_resetBufferOnly(b, H) == [b |-> Buffer_reset, H |-> H, fresh |-> TRUE]

(* A reset that writes the initial words into the hash object at hand. *)
Hasher_resetInPlace(b, H) == [b |-> Buffer_reset, H |-> doReset, fresh |-> FALSE]

(* reset() of a hasher whose buffer is b and whose hash is H:              *)
(* this.buffer.reset(); this.md5.doReset()                                 *)
(* doReset assigns this._hash = new WordArray([...]): the hash is an       *)
(* object of its own (fresh), the one held before is left as it was.       *)
Hasher_reset(b, H) == [b |-> Buffer_reset, H |-> doReset, fresh |-> TRUE]

(* new Hasher(buffer): the fields are set and the hasher is reset; before  *)
(* that the md5 object has no hash.                                        *)
Hasher_new == Hasher_reset(Buffer_reset, <<>>)

(* An update that flushes: process(true, md5). *)
Hasher_updateFlush(b, H, messageUpdate, minBufferSize) ==
    Buffer_process(Buffer_append(b, messageUpdate), H, TRUE, minBufferSize)

(* An update that appends and processes nothing. *)
Hasher_updateNoDrain(b, H, messageUpdate, minBufferSize) ==
    [b |-> Buffer_append(b, messageUpdate), H |-> H, ret |-> EmptyWordArray,
     n |-> 0, fed |-> <<>>]

(* update(messageUpdate): append, process(false, md5), return this *)
Hasher_update(b, H, messageUpdate, minBufferSize) ==
    Buffer_process(Buffer_append(b, messageUpdate), H, FALSE, minBufferSize)

(* finalize(messageUpdate): append when messageUpdate is truthy (a string  *)
(* that is not empty), then doFinalize.                                    *)
Hasher_finalize(b, H, messageUpdate, minBufferSize) ==
    doFinalize(IF messageUpdate # <<>> THEN Buffer_append(b, messageUpdate) ELSE b,
               H, minBufferSize)

----------------------------------------------------------------------------
(* The callers' inputs.  A caller streams one text through the hasher: it  *)
(* cuts the text at some of the scenario's cut points and passes the       *)
(* pieces, in order, to update and finalize.                               *)

LongLen == 200

Abc  == <<97, 98, 99>>
Fox  == <<84, 104, 101, 32, 113, 117, 105, 99, 107, 32, 98, 114, 111, 119, 110,
          32, 102, 111, 120, 32, 106, 117, 109, 112, 115, 32, 111, 118, 101,
          114, 32, 116, 104, 101, 32, 108, 97, 122, 121, 32, 100, 111, 103>>
Euro == <<97, 233, 8364>>
Long == <<>> \o [i \in 1..LongLen |-> 32 + ((i * 7) % 90)]

Scenarios == <<
    [text |-> Abc,  cuts |-> {0, 1, 3}],
    [text |-> Fox,  cuts |-> {0, 43}],
    [text |-> Euro, cuts |-> {0, 2, 3}],
    [text |-> Long, cuts |-> {0, 55, 56}],
    [text |-> Long, cuts |-> {0, 63, 64, 65}],
    [text |-> Long, cuts |-> {0, 64, 129}],
    [text |-> Long, cuts |-> {0, 55, 64, 129, LongLen}] >>

(* The scenarios of the hasher's callers and of the buffer's callers. *)
HasherScenarios == 1..6
BufferScenarios == {7}

MaxUpdates   == 2
MaxReuse     == 1
MaxMinBuffer == 2
MaxBlockCalls == 2

VARIABLES
    data,          \* buffer._data: [words, sigBytes]
    nDataBytes,    \* buffer._nDataBytes
    minBufferSize, \* buffer._minBufferSize
    hash,          \* md5._hash.words
    ret,           \* what the last call returned: "none", "this", "hash", "data"
    digest,        \* the words of the object the last finalize returned
    digestLive,    \* whether that object is still md5._hash
    scen,          \* the caller's scenario
    pos,           \* the code points of the text passed so far
    upd,           \* update (append) calls since the last reset
    nFinal,        \* finalize calls since the last reset
    reuse,         \* calls made after the first finalize, since the last reset
    used,          \* whether the hasher had calls before its last reset
    trail,         \* the cut points the calls since the last reset ended at
    fed,           \* the blocks handed to doProcessBlock since the last reset
    last,          \* the last call: what it was given and what it did
    kept,          \* the words, as they read now, of the digest object the
                   \* caller kept over the last reset (<<>>: none kept)
    keptWas,       \* the words of that object when the reset was called
    keptLive       \* whether that object is still md5._hash

vars == <<data, nDataBytes, minBufferSize, hash, ret, digest, digestLive,
          scen, pos, upd, nFinal, reuse, used, trail, fed, last,
          kept, keptWas, keptLive>>

NoCall == [op |-> "none", arg |-> 0, flush |-> FALSE, sigBefore |-> 0,
           buf |-> <<>>, tail |-> <<>>, n |-> 0, retBytes |-> 0]

Text == Scenarios[scen].text
Cuts == Scenarios[scen].cuts

(* The piece of the text from the position reached up to cut point q. *)
Piece(q) == SubSeq(Text, pos + 1, q)

(* The bytes appended since the last reset. *)
msg == Utf8(SubSeq(Text, 1, pos))

(* new Hasher(new BufferedBlockAlgorithm()), the buffer's _minBufferSize   *)
(* being min, in the hands of a caller with scenario sc.                   *)
Constructed(sc, min) ==
    /\ data = Hasher_new.b.data
    /\ nDataBytes = Hasher_new.b.nDataBytes
    /\ minBufferSize = min
    /\ hash = Hasher_new.H
    /\ ret = "none"
    /\ digest = <<>>
    /\ digestLive = FALSE
    /\ scen = sc
    /\ pos = 0 /\ upd = 0 /\ nFinal = 0 /\ reuse = 0
    /\ used = FALSE
    /\ trail = <<>>
    /\ fed = <<>>
    /\ last = NoCall
    /\ kept = <<>> /\ keptWas = <<>> /\ keptLive = FALSE

Init == \E sc \in HasherScenarios : Constructed(sc, 0)

(* hasher.reset(); the caller lets go of the digest it held and takes up   *)
(* a text of scenario set S again.                                         *)
ResetFor(S) ==
    /\ \E sc \in S : scen' = sc
    /\ \E r \in {Hasher_reset([data |-> data, nDataBytes |-> nDataBytes], hash)} :
           /\ data' = r.b.data
           /\ nDataBytes' = r.b.nDataBytes
           /\ hash' = r.H
    /\ ret' = "none"
    /\ digest' = <<>>
    /\ digestLive' = FALSE
    /\ pos' = 0 /\ upd' = 0 /\ nFinal' = 0 /\ reuse' = 0
    /\ used' = (used \/ upd + nFinal > 0)
    /\ trail' = <<>>
    /\ fed' = <<>>
    /\ last' = [NoCall EXCEPT !.op = "reset"]
    /\ kept' = <<>> /\ keptWas' = <<>> /\ keptLive' = FALSE
    /\ UNCHANGED minBufferSize

Reset == ResetFor(HasherScenarios)

(* hasher.update(piece) *)
Update(q) ==
    /\ q \in Cuts /\ q >= pos
    /\ upd < MaxUpdates
    /\ nFinal = 0 \/ reuse < MaxReuse
    /\ \E r \in {Hasher_update([data |-> data, nDataBytes |-> nDataBytes], hash,
                               Piece(q), minBufferSize)} :
           /\ data' = r.b.data
           /\ nDataBytes' = r.b.nDataBytes
           /\ hash' = r.H
           /\ ret' = "this"
           /\ digest' = IF digestLive THEN r.H ELSE digest
           /\ kept' = IF keptLive THEN r.H ELSE kept
           /\ fed' = fed \o r.fed
           /\ last' = [NoCall EXCEPT !.op = "update", !.arg = Len(Utf8(Piece(q))),
                                     !.sigBefore = data.sigBytes, !.n = r.n,
                                     !.retBytes = r.ret.sigBytes]
    /\ pos' = q
    /\ upd' = upd + 1
    /\ reuse' = IF nFinal > 0 THEN reuse + 1 ELSE reuse
    /\ trail' = Append(trail, q)
    /\ UNCHANGED <<minBufferSize, digestLive, scen, nFinal, used, keptWas, keptLive>>

(* hasher.finalize(piece); finalize() is finalize of the empty piece. *)
Finalize(q) ==
    /\ q \in Cuts /\ q >= pos
    /\ nFinal = 0 \/ reuse < MaxReuse
    /\ \E r \in {Hasher_finalize([data |-> data, nDataBytes |-> nDataBytes], hash,
                                 Piece(q), minBufferSize)} :
           /\ data' = r.b.data
           /\ nDataBytes' = r.b.nDataBytes
           /\ hash' = r.H
           /\ ret' = "hash"
           /\ digest' = r.H
           /\ kept' = IF keptLive THEN r.H ELSE kept
           /\ fed' = fed \o r.fed
           /\ last' = [NoCall EXCEPT !.op = "finalize", !.arg = Len(Utf8(Piece(q))),
                                     !.sigBefore = Len(r.buf), !.flush = r.flush,
                                     !.buf = r.buf, !.tail = r.tail, !.n = r.n]
    /\ digestLive' = TRUE
    /\ pos' = q
    /\ nFinal' = nFinal + 1
    /\ reuse' = IF nFinal > 0 THEN reuse + 1 ELSE reuse
    /\ trail' = Append(trail, q)
    /\ UNCHANGED <<minBufferSize, scen, upd, used, keptWas, keptLive>>

Next ==
    \/ Reset
    \/ \E q \in Cuts : Update(q)
    \/ \E q \in Cuts : Finalize(q)

Spec == Init /\ [][Next]_vars

----------------------------------------------------------------------------
(* The buffer in the hands of a caller of its own (a subtype of the block  *)
(* algorithm, which may keep _minBufferSize blocks back): append, process  *)
(* with either flag, reset.                                                *)

InitBuffer == \E min \in 0..MaxMinBuffer : Constructed(7, min)

BReset == ResetFor(BufferScenarios)

(* buffer.append(piece) *)
BAppend(q) ==
    /\ q \in Cuts /\ q > pos
    /\ upd < MaxUpdates
    /\ \E b \in {Buffer_append([data |-> data, nDataBytes |-> nDataBytes], Piece(q))} :
           /\ data' = b.data
           /\ nDataBytes' = b.nDataBytes
    /\ ret' = "none"
    /\ last' = [NoCall EXCEPT !.op = "append", !.arg = Len(Utf8(Piece(q))),
                              !.sigBefore = data.sigBytes]
    /\ pos' = q
    /\ upd' = upd + 1
    /\ trail' = Append(trail, q)
    /\ UNCHANGED <<minBufferSize, hash, digest, digestLive, scen, nFinal, reuse,
                   used, fed, kept, keptWas, keptLive>>

(* buffer.process(doFlush, md5) *)
BProcess(doFlush) ==
    /\ \E r \in {Buffer_process([data |-> data, nDataBytes |-> nDataBytes], hash,
                                doFlush, minBufferSize)} :
           /\ data' = r.b.data
           /\ nDataBytes' = r.b.nDataBytes
           /\ hash' = r.H
           /\ fed' = fed \o r.fed
           /\ last' = [NoCall EXCEPT !.op = "process", !.flush = doFlush,
                                     !.sigBefore = data.sigBytes,
                                     !.buf = <<>> \o Bytes(data.words, data.sigBytes),
                                     !.n = r.n, !.retBytes = r.ret.sigBytes]
    /\ ret' = "data"
    /\ UNCHANGED <<minBufferSize, digest, digestLive, scen, pos, upd, nFinal,
                   reuse, used, trail, kept, keptWas, keptLive>>

NextBuffer ==
    \/ BReset
    \/ \E q \in Cuts : BAppend(q)
    \/ \E doFlush \in BOOLEAN : BProcess(doFlush)

SpecBuffer == InitBuffer /\ [][NextBuffer]_vars

----------------------------------------------------------------------------
(* A hasher whose caller also reaches its buffer: the calls of the buffer  *)
(* and the updates of the hasher, in any order, up to a finalize(), after  *)
(* which the caller resets.                                                *)

NextCalls ==
    \/ BReset
    \/ nFinal = 0 /\ \E q \in Cuts : BAppend(q)
    \/ nFinal = 0 /\ \E doFlush \in BOOLEAN : BProcess(doFlush)
    \/ nFinal = 0 /\ \E q \in Cuts : Update(q)
    \/ nFinal = 0 /\ Finalize(pos)

SpecCalls == InitBuffer /\ [][NextCalls]_vars

----------------------------------------------------------------------------
(* The transform in the hands of a caller that appends to the buffer and   *)
(* calls md5.doProcessBlock(buffer._data.words, offset) itself, at offsets *)
(* that are multiples of the block size with 16 words present.             *)

InitBlock == Constructed(7, 0)

BBlock(offset) ==
    /\ offset % blockSize = 0
    /\ offset + blockSize <= Len(data.words)
    /\ Len(fed) < blockSize * MaxBlockCalls
    /\ \E r \in {doProcessBlock(data.words, offset, hash)} :
           /\ data' = [data EXCEPT !.words = r.M]
           /\ hash' = r.H
    /\ fed' = fed \o SubSeq(data.words, offset + 1, offset + blockSize)
    /\ last' = [NoCall EXCEPT !.op = "block", !.arg = offset,
                              !.sigBefore = data.sigBytes, !.n = 1]
    /\ ret' = "none"
    /\ UNCHANGED <<nDataBytes, minBufferSize, digest, digestLive, scen, pos, upd,
                   nFinal, reuse, used, trail, kept, keptWas, keptLive>>

NextBlock ==
    \/ BReset
    \/ \E q \in Cuts : BAppend(q)
    \/ \E k \in 0..(Len(data.words) \div blockSize) : BBlock(k * blockSize)

SpecBlock == InitBlock /\ [][NextBlock]_vars

----------------------------------------------------------------------------
(* A hasher far into a long stream: 2^29 bytes, 2^32 bits, were appended   *)
(* since its reset and all of them went through the transform, so that the *)
(* buffer is empty and the bit count needs its high word.  The hash such a *)
(* stream leaves is not computed here (the initial one stands for it): the *)
(* padding does not read the hash.                                         *)
Streamed(sc) ==
    /\ data = EmptyWordArray
    /\ nDataBytes = 536870912
    /\ minBufferSize = 0
    /\ hash = doReset
    /\ ret = "this"
    /\ digest = <<>>
    /\ digestLive = FALSE
    /\ scen = sc
    /\ pos = 0 /\ upd = 0 /\ nFinal = 0 /\ reuse = 0
    /\ used = FALSE
    /\ trail = <<>>
    /\ fed = <<>>
    /\ last = [NoCall EXCEPT !.op = "update"]
    /\ kept = <<>> /\ keptWas = <<>> /\ keptLive = FALSE

InitLong == \E sc \in HasherScenarios : Streamed(sc)

SpecLong == InitLong /\ [][Next]_vars

----------------------------------------------------------------------------
(* A hasher whose caller keeps the object a finalize returned, resets the  *)
(* hasher and hashes again.                                                *)

KeepScenarios == {1, 3}

InitKeep == \E sc \in KeepScenarios : Constructed(sc, 0)

(* hasher.reset() right after a finalize, the caller holding on to the     *)
(* object that finalize returned: the object stays md5._hash only if the   *)
(* reset did not install a fresh one, and then reads what the reset wrote. *)
ResetKeep ==
    /\ nFinal = 1 /\ reuse = 0
    /\ \E sc \in KeepScenarios : scen' = sc
    /\ \E r \in {Hasher_reset([data |-> data, nDataBytes |-> nDataBytes], hash)} :
           /\ data' = r.b.data
           /\ nDataBytes' = r.b.nDataBytes
           /\ hash' = r.H
           /\ kept' = IF r.fresh THEN digest ELSE r.H
           /\ keptLive' = ~r.fresh
    /\ keptWas' = digest
    /\ ret' = "none"
    /\ digest' = <<>>
    /\ digestLive' = FALSE
    /\ pos' = 0 /\ upd' = 0 /\ nFinal' = 0 /\ reuse' = 0
    /\ used' = TRUE
    /\ trail' = <<>>
    /\ fed' = <<>>
    /\ last' = [NoCall EXCEPT !.op = "reset"]
    /\ UNCHANGED minBufferSize

NextKeep ==
    \/ ResetKeep
    \/ \E q \in Cuts : Update(q)
    \/ \E q \in Cuts : Finalize(q)

SpecKeep == InitKeep /\ [][NextKeep]_vars

----------------------------------------------------------------------------
(* MD5 as RFC 1321 defines it, on a sequence of bytes: the reference the   *)
(* digests are compared with.  It pads the bytes, reads them as little-    *)
(* endian words and rotates the four registers through 64 steps a block.   *)

RefInit == << <<\h6745, \h2301>>, <<\hefcd, \hab89>>,
              <<\h98ba, \hdcfe>>, <<\h1032, \h5476>> >>

RefShift == << <<7, 12, 17, 22>>, <<5, 9, 14, 20>>, <<4, 11, 16, 23>>,
               <<6, 10, 15, 21>> >>

RefIndex(i) ==
    CASE i < 16 -> i
      [] i >= 16 /\ i < 32 -> ((5 * i) + 1) % 16
      [] i >= 32 /\ i < 48 -> ((3 * i) + 5) % 16
      [] i >= 48 -> (7 * i) % 16

RefMix(i, b, c, d) ==
    CASE i < 16 -> Or(And(b, c), And(Not(b), d))
      [] i >= 16 /\ i < 32 -> Or(And(b, d), And(c, Not(d)))
      [] i >= 32 /\ i < 48 -> Xor(Xor(b, c), d)
      [] i >= 48 -> Xor(c, Or(b, Not(d)))

(* One step on the registers r = <<A, B, C, D>> with the block's words X. *)
RefStep(i, r, X) ==
    <<r[4],
      Add(r[2], RotL(Add(Add(Add(r[1], RefMix(i, r[2], r[3], r[4])), TT[i + 1]),
                         X[RefIndex(i) + 1]),
                     RefShift[(i \div 16) + 1][(i % 4) + 1])),
      r[2], r[3]>>

RECURSIVE RefRounds(_, _, _)
RefRounds(i, r, X) ==
    IF i >= 64 \/ Len(r) # 4 THEN r ELSE RefRounds(i + 1, RefStep(i, r, X), X)

(* The k-th (0-based) little-endian word of a byte sequence. *)
RefWord(bytes, k) ==
    <<(bytes[(4 * k) + 4] * 256) + bytes[(4 * k) + 3],
      (bytes[(4 * k) + 2] * 256) + bytes[(4 * k) + 1]>>

RefBlock(bytes, j) == <<>> \o [k \in 1..16 |-> RefWord(bytes, (16 * j) + k - 1)]

(* A number below 2^31 as 8 little-endian bytes. *)
RefLE64(n) ==
    <<n % 256, (n \div 256) % 256, (n \div 65536) % 256, (n \div 16777216) % 256,
      0, 0, 0, 0>>

RefZeros(n) == [i \in 1..n |-> 0]

(* The message, the byte 0x80, zeros up to 56 modulo 64, the bit length. *)
RefPad(bytes) ==
    bytes \o <<128>> \o RefZeros((119 - (Len(bytes) % 64)) % 64)
          \o RefLE64(Len(bytes) * 8)

RECURSIVE RefBlocks(_, _, _)
RefBlocks(bytes, j, r) ==
    IF 64 * j >= Len(bytes) \/ Len(r) # 4 THEN r
    ELSE LET Sum(t) == <<Add(r[1], t[1]), Add(r[2], t[2]),
                         Add(r[3], t[3]), Add(r[4], t[4])>>
         IN  RefBlocks(bytes, j + 1, Sum(RefRounds(0, r, RefBlock(bytes, j))))

RefLEBytes(w) == <<w[2] % 256, w[2] \div 256, w[1] % 256, w[1] \div 256>>

(* The 16 bytes of the MD5 digest of a byte sequence. *)
RefMD5(bytes) ==
    LET Out(r) == RefLEBytes(r[1]) \o RefLEBytes(r[2]) \o RefLEBytes(r[3])
                  \o RefLEBytes(r[4])
    IN  Out(RefBlocks(<<>> \o RefPad(bytes), 0, RefInit))

(* The published digests of "", "abc" and "The quick brown fox jumps over  *)
(* the lazy dog", as the four words finalize returns.                      *)
VectorEmpty == << <<\hd41d, \h8cd9>>, <<\h8f00, \hb204>>,
                  <<\he980, \h0998>>, <<\hecf8, \h427e>> >>
VectorAbc   == << <<\h9001, \h5098>>, <<\h3cd2, \h4fb0>>,
                  <<\hd696, \h3f7d>>, <<\h28e1, \h7f72>> >>
VectorFox   == << <<\h9e10, \h7d9d>>, <<\h372b, \hb682>>,
                  <<\h6bd8, \h1d35>>, <<\h42a4, \h19d6>> >>

(* finalize(text) on a newly constructed hasher: its digest, the blocks it *)
(* handed to the transform.                                                *)
OneShot(text) == Hasher_finalize(Hasher_new.b, Hasher_new.H, text, 0)

(* The text passed since the last reset. *)
Passed == SubSeq(Text, 1, pos)

(* The last call was the first finalize since the last reset. *)
FirstFinalize == last.op = "finalize" /\ nFinal = 1

----------------------------------------------------------------------------
(* The properties.                                                         *)

(* C1: incremental equivalence.  Whatever cut points the updates ended at  *)
(* (none, the start, the end, a point inside a 64-byte block), the first   *)
(* finalize after a reset returns the digest that finalize of the whole    *)
(* text returns on a new hasher, and the transform was handed the same     *)
(* sequence of blocks.                                                     *)
C1_IncrementalEquivalence ==
    FirstFinalize =>
        LET Same(o) == digest = o.H /\ fed = o.fed
        IN  Same(OneShot(Passed))

(* update of 63 bytes, update of 2 more, finalize(): a cut inside the      *)
(* first block, two blocks handed to the transform.                        *)
C1_Witness ==
    /\ FirstFinalize /\ scen = 5 /\ trail = <<63, 65, 65>>
    /\ upd = 2 /\ last.arg = 0 /\ Len(fed) = 32

(* C2: the digest of the first finalize after a reset is the RFC 1321 MD5  *)
(* digest of the bytes passed, and the digests of "", "abc" and "The quick *)
(* brown fox jumps over the lazy dog" are the published ones.              *)
C2_ReferenceDigest ==
    FirstFinalize =>
        /\ <<>> \o Bytes(digest, 16) = RefMD5(msg)
        /\ pos = 0 => digest = VectorEmpty
        /\ (scen = 1 /\ pos = 3) => digest = VectorAbc
        /\ (scen = 2 /\ pos = 43) => digest = VectorFox

(* finalize("The quick brown fox jumps over the lazy dog") on a hasher     *)
(* that was reset.                                                         *)
C2_Witness ==
    /\ FirstFinalize /\ scen = 2 /\ trail = <<43>>
    /\ digest = VectorFox

(* C3: a finalize that finds r bytes buffered hands (r + 8) div 64 + 1     *)
(* blocks to the transform; they are the r bytes, the byte 0x80, zeros and *)
(* the bit length in 8 bytes that end the last block; texts of 0, 55, 56,  *)
(* 63, 64 and 65 bytes take 1, 1, 2, 2, 2 and 2 blocks in all.             *)
C3_PaddingBlocks ==
    last.op = "finalize" =>
        /\ last.n = ((last.sigBefore + 8) \div 64) + 1
        /\ Len(last.tail) = 16 * last.n
        /\ <<>> \o Bytes(last.tail, 64 * last.n)
               = last.buf \o <<128>>
                          \o RefZeros((64 * last.n) - last.sigBefore - 9)
                          \o RefLE64(nDataBytes * 8)
        /\ nFinal = 1 => Len(fed) = 16 * (((Len(msg) + 8) \div 64) + 1)
        /\ (nFinal = 1 /\ scen \in {4, 5} /\ pos \in {0, 55})
               => Len(fed) = 16
        /\ (nFinal = 1 /\ scen \in {4, 5} /\ pos \in {56, 63, 64, 65})
               => Len(fed) = 32

(* finalize of 65 bytes in one call: 65 bytes buffered, two blocks. *)
C3_Witness ==
    /\ FirstFinalize /\ scen = 5 /\ trail = <<65>>
    /\ last.sigBefore = 65 /\ last.n = 2

(* C4: reset leaves the buffer empty, the byte count 0 and the hash the    *)
(* four initial constants, and finalize of a text right after the reset of *)
(* a hasher that had calls before returns what it returns on a new hasher. *)
C4_IdempotentReset ==
    /\ last.op = "reset" =>
           /\ data = [words |-> <<>>, sigBytes |-> 0]
           /\ nDataBytes = 0
           /\ hash = RefInit
    /\ (used /\ FirstFinalize /\ trail = <<pos>>) => digest = OneShot(Passed).H

(* A hasher that had calls, was reset and then finalized a text. *)
C4_Witness ==
    /\ used /\ FirstFinalize /\ trail = <<pos>> /\ pos > 0
    /\ digest = OneShot(Passed).H

(* C5: process(false) hands max(sigBytes div 64 - minBufferSize, 0) blocks *)
(* to the transform, takes that many times 64 bytes off the buffer and     *)
(* leaves the rest, the bytes of a partial block and of the blocks kept    *)
(* back, buffered as they were.                                            *)
C5_NoPartialBlock ==
    (last.op = "process" /\ ~last.flush) =>
        LET whole == last.sigBefore \div 64
            taken == IF whole > minBufferSize THEN whole - minBufferSize ELSE 0
        IN  /\ last.n = taken
            /\ last.sigBefore - data.sigBytes = 64 * taken
            /\ last.retBytes = 64 * taken
            /\ data.sigBytes = (last.sigBefore % 64) + (64 * (whole - taken))
            /\ <<>> \o Bytes(data.words, data.sigBytes)
                   = SubSeq(last.buf, (64 * taken) + 1, Len(last.buf))

(* process(false) with one block kept back and a partial block buffered:   *)
(* blocks are taken and more than a block stays.                           *)
C5_Witness ==
    /\ last.op = "process" /\ ~last.flush
    /\ minBufferSize = 1 /\ last.n >= 1 /\ data.sigBytes > 64

(* C6: process(true) hands ceil(sigBytes / 64) blocks to the transform,    *)
(* returns as many bytes as were buffered and leaves no byte buffered.     *)
C6_FlushConsumesAll ==
    (last.op = "process" /\ last.flush) =>
        /\ last.n = (last.sigBefore + 63) \div 64
        /\ last.retBytes = last.sigBefore
        /\ data.sigBytes = 0

(* process(true) on a buffer whose last block is partial. *)
C6_Witness ==
    /\ last.op = "process" /\ last.flush
    /\ last.sigBefore % 64 # 0 /\ last.n >= 2 /\ data.sigBytes = 0

(* C7: an update on a hasher not finalized since its reset appends its     *)
(* input, hands every whole block to the transform, leaves fewer than 64   *)
(* bytes buffered and returns the hasher.                                  *)
C7_UpdateDrains ==
    (last.op = "update" /\ nFinal = 0) =>
        /\ data.sigBytes < 64
        /\ data.sigBytes = (last.sigBefore + last.arg) % 64
        /\ last.n = (last.sigBefore + last.arg) \div 64
        /\ nDataBytes = Len(msg)
        /\ ret = "this"

(* The second of two chained updates, which completes a block. *)
C7_Witness ==
    /\ last.op = "update" /\ nFinal = 0 /\ upd = 2
    /\ last.sigBefore > 0 /\ last.n >= 1 /\ data.sigBytes > 0

(* C8: the hash is four 32-bit words in every state, and what finalize     *)
(* returns is four 32-bit words whatever the length of the input.          *)
C8_DigestFourWords ==
    /\ Len(hash) = 4
    /\ \A i \in 1..4 : IsWord(hash[i])
    /\ ret = "hash" => /\ Len(digest) = 4
                       /\ \A i \in 1..4 : IsWord(digest[i])

(* finalize() of no input at all. *)
C8_Witness ==
    /\ FirstFinalize /\ trail = <<0>> /\ Len(digest) = 4

(* C9: a finalize after a finalize, with no reset between the two, ends in *)
(* an error and returns no digest.                                         *)
C9_ReuseFailsFast ==
    (last.op = "finalize" /\ nFinal >= 2) => ret = "error"

(* C10: the buffer's sigBytes is at least 0 and at most 4 times the number *)
(* of its words, in every state.                                           *)
C10_SigBytesWithinWords ==
    /\ 0 <= data.sigBytes
    /\ data.sigBytes <= 4 * Len(data.words)

(* C11: finalize makes its pass over the buffer with the flush flag set    *)
(* and leaves the buffer empty: no words and sigBytes 0.                   *)
C11_FinalizeEmptiesBuffer ==
    last.op = "finalize" =>
        /\ last.flush
        /\ Len(data.words) = 0
        /\ data.sigBytes = 0

(* The 64-bit count of the bits of n bytes as 8 bytes, the least           *)
(* significant first.                                                      *)
BitCountBytes(n) ==
    <<(n % 32) * 8, (n \div 32) % 256, (n \div 8192) % 256, (n \div 2097152) % 256,
      (n \div 536870912) % 256, 0, 0, 0>>

(* The big-endian word of the bytes i+1 .. i+4 of a byte sequence. *)
WordOfBytes(bytes, i) ==
    <<(bytes[i + 1] * 256) + bytes[i + 2], (bytes[i + 3] * 256) + bytes[i + 4]>>

(* The words in the second-to-last and in the last slot of the padded tail. *)
TailWord14 == last.tail[Len(last.tail) - 1]
TailWord15 == last.tail[Len(last.tail)]

(* C12, as stated: the padded tail has the byte-swapped high word of the   *)
(* bit count in its second-to-last slot (14) and the byte-swapped low word *)
(* in its last slot (15).                                                  *)
C12_HighWordFirst ==
    last.op = "finalize" =>
        /\ TailWord14 = WordOfBytes(BitCountBytes(nDataBytes), 4)
        /\ TailWord15 = WordOfBytes(BitCountBytes(nDataBytes), 0)

(* C12, amended: the byte-swapped low word of the bit count is in the      *)
(* second-to-last slot (14) of the last block of the padded tail and the   *)
(* byte-swapped high word in its last slot (15), so that the block ends    *)
(* with the 64-bit count, least significant byte first.                    *)
C12_LowWordFirst ==
    last.op = "finalize" =>
        /\ Len(last.tail) % 16 = 0
        /\ TailWord14 = WordOfBytes(BitCountBytes(nDataBytes), 0)
        /\ TailWord15 = WordOfBytes(BitCountBytes(nDataBytes), 4)

(* The finalize of a stream of more than 2^32 bits: neither word is 0. *)
C12_Witness ==
    /\ last.op = "finalize" /\ nFinal = 1
    /\ nDataBytes > 536870912
    /\ TailWord15 = <<256, 0>> /\ TailWord14 # Zero

(* The word with the bytes of w in the opposite order. *)
Reversed(w) == WordOfBytes(RefLEBytes(w), 0)

(* What RFC 1321 makes of the hash h with the 16 big-endian words of a     *)
(* block: the block is read as little-endian words, the 64 steps run and   *)
(* their result is added to h, word by word, modulo 2^32.                  *)
Compressed(h, block) ==
    LET Sum(t) == <<Add(h[1], t[1]), Add(h[2], t[2]), Add(h[3], t[3]), Add(h[4], t[4])>>
    IN  Sum(RefRounds(0, h, <<>> \o [k \in 1..16 |-> Reversed(block[k])]))

(* C13, as stated: a call of doProcessBlock leaves the words, the 16 of    *)
(* the block included, and the fields of the buffer as they were, and      *)
(* changes the four words of the hash only.                                *)
C13_WordsUntouched ==
    [][last'.op = "block" =>
           /\ data' = data
           /\ nDataBytes' = nDataBytes
           /\ minBufferSize' = minBufferSize
           /\ Len(hash') = 4]_vars

(* C13, amended: a call of doProcessBlock reverses the bytes of each of    *)
(* the 16 words of the block in place and leaves every other word, the     *)
(* number of words, sigBytes and the other fields of the buffer as they    *)
(* were; the hash keeps four words, each the old word plus the word the 64 *)
(* steps end with, modulo 2^32.                                            *)
C13_SwapsBlockOnly ==
    [][last'.op = "block" =>
           /\ Len(data'.words) = Len(data.words)
           /\ \A i \in 1..Len(data.words) :
                  data'.words[i] =
                      IF i > last'.arg /\ i <= last'.arg + 16
                      THEN Reversed(data.words[i]) ELSE data.words[i]
           /\ data'.sigBytes = data.sigBytes
           /\ nDataBytes' = nDataBytes
           /\ minBufferSize' = minBufferSize
           /\ hash' = Compressed(hash, SubSeq(data.words, last'.arg + 1,
                                              last'.arg + 16))]_vars

(* A second call, on the second block of a buffer of more than two blocks. *)
C13_Witness ==
    /\ last.op = "block" /\ last.arg = 16
    /\ Len(fed) = 32 /\ Len(data.words) > 32

(* Whether the call that led to the next state found a block to take:     *)
(* buffered is what the buffer held when process ran.                      *)
BlocksReady(buffered, doFlush) ==
    IF doFlush THEN buffered > 0 ELSE buffered \div 64 > minBufferSize

(* C14: the hash changes only where a whole block is compressed or in      *)
(* finalize (and where reset replaces it).  An append leaves it as it was, *)
(* an update after which no whole block is to be taken leaves it as it     *)
(* was, and a process that finds no block ready leaves the hash, the       *)
(* buffered words and sigBytes as they were.                               *)
C14_HashChangesInBlocksOnly ==
    [][/\ last'.op = "append" => hash' = hash
       /\ (last'.op = "update"
             /\ ~BlocksReady(last'.sigBefore + last'.arg, FALSE)) => hash' = hash
       /\ (last'.op = "process"
             /\ ~BlocksReady(last'.sigBefore, last'.flush))
             => hash' = hash /\ data' = data
       /\ hash' # hash =>
             \/ last'.op \in {"finalize", "reset"}
             \/ last'.op \in {"update", "process"} /\ last'.n > 0]_vars

(* An update that adds to a partial block and does not complete it. *)
C14_Witness ==
    /\ last.op = "update" /\ nFinal = 0
    /\ last.sigBefore > 0 /\ last.arg > 0 /\ last.n = 0
    /\ data.sigBytes = last.sigBefore + last.arg

(* C15: the count of the bytes appended is a running count.  A call that  *)
(* appends (append, update, finalize with input) adds the bytes of its     *)
(* input to it, process leaves it as it was with either flag, reset sets   *)
(* it to 0, and so it is the number of the bytes passed since the reset.   *)
C15_RunningByteCount ==
    /\ [](nDataBytes = Len(msg))
    /\ [][/\ last'.op \in {"append", "update", "finalize"}
                 => nDataBytes' = nDataBytes + last'.arg
          /\ last'.op = "process" => nDataBytes' = nDataBytes
          /\ last'.op = "reset" => nDataBytes' = 0]_vars

(* A flushing process after two appends: the buffer is empty and the count *)
(* is that of both inputs.                                                 *)
C15_Witness ==
    /\ last.op = "process" /\ last.flush /\ last.n >= 2
    /\ upd = 2 /\ data.sigBytes = 0 /\ nDataBytes = 129

(* C16: up to the finalize, the blocks handed to the transform, in the     *)
(* order of the calls, followed by the bytes buffered are the bytes of the *)
(* inputs in their order, and the count of the bytes appended is 64 times  *)
(* the number of those blocks plus sigBytes.                               *)
C16_StreamFidelity ==
    nFinal = 0 =>
        /\ Len(fed) % 16 = 0
        /\ <<>> \o Bytes(fed, 4 * Len(fed)) \o Bytes(data.words, data.sigBytes) = msg
        /\ nDataBytes = (64 * (Len(fed) \div 16)) + data.sigBytes

(* Two updates, of one block and of one block and a byte: two blocks went  *)
(* to the transform and a byte is buffered.                                *)
C16_Witness ==
    /\ nFinal = 0 /\ last.op = "update" /\ trail = <<64, 129>>
    /\ Len(fed) = 32 /\ data.sigBytes = 1

(* C17: the digest a finalize returned reads the same after a reset() and *)
(* whatever updates and finalizes follow it on the same hasher: the reset  *)
(* installs a hash of its own and leaves the returned object alone.        *)
C17_DigestStableAfterReset ==
    /\ kept = keptWas
    /\ keptWas # <<>> => ~keptLive

(* The caller kept a digest over a reset, and a finalize after that reset  *)
(* returned another one.                                                   *)
C17_Witness ==
    /\ keptWas # <<>> /\ Len(keptWas) = 4
    /\ last.op = "finalize" /\ upd > 0 /\ nFinal = 1
    /\ digest # keptWas

====
